---- MODULE Spec2Model ----
(***************************************************************************)
(* A model of src/src/implementations/local-paraswap-sdk.ts:               *)
(*   - curveV1Merge (the route merger), a function over a rate whose hop   *)
(*     objects live in a heap, so that cloning and in-place fusion are     *)
(*     visible;                                                            *)
(*   - LocalParaswapSDK.buildTransaction, whose per-exchange callbacks     *)
(*     are suspended at their awaits and resumed in any order;             *)
(*   - LocalParaswapSDK.getPrices, from the sample amounts to the rate     *)
(*     made of the first quote.                                            *)
(* SpecMerge exercises curveV1Merge, Spec exercises buildTransaction,      *)
(* SpecPrices exercises getPrices.                                         *)
(***************************************************************************)
EXTENDS Integers, Sequences, FiniteSets, TLC

(***************************************************************************)
(* Bounds of the model.                                                    *)
(***************************************************************************)
\* hops of an input rate, over all of its routes
MaxHops == 3
\* successive applications of curveV1Merge to the same rate object
MaxCalls == 2
\* swapExchanges of a rate handed to buildTransaction, over all of its swaps
MaxExchanges == 3
\* the largest amount getPrices is asked to price
MaxAmount == 24
\* quotes in the list getPoolPrices returns
MaxQuotes == 2

(***************************************************************************)
(* Strings that the code compares after toLowerCase(): a string is its     *)
(* lower-case form together with whether it is written with capitals.      *)
(***************************************************************************)
Str(lower, cased) == [lower |-> lower, cased |-> cased]

toLowerCase(s) == [s EXCEPT !.cased = FALSE]

\* _.last of a non-empty array
last(arr) == arr[Len(arr)]

(***************************************************************************)
(* The mergeable family: the keys of the two imported configurations.      *)
(***************************************************************************)
CurveV1FactoryConfig == {Str("curvev1factory", TRUE)}

CurveV1StableNgConfig == {Str("curvev1stableng", TRUE)}

CurveV1FactoryForks ==
  {toLowerCase(dexName) : dexName \in CurveV1FactoryConfig \cup CurveV1StableNgConfig}

\* ParaSwapVersion
V5 == "V5"

V6 == "V6"

(***************************************************************************)
(* gasUSD is a decimal string: units * 10^-digits, written with `digits`   *)
(* fractional digits.  A number is a fraction num / den.                   *)
(***************************************************************************)
RECURSIVE Pow10(_)
Pow10(n) == IF n = 0 THEN 1 ELSE 10 * Pow10(n - 1)

Dec(units, digits) == [units |-> units, digits |-> digits]

\* parseFloat of a decimal string: the number it denotes
parseFloat(s) == [num |-> s.units, den |-> Pow10(s.digits)]

\* x + y, over the larger of the two denominators (both are powers of ten)
Plus(x, y) ==
  LET den == IF x.den >= y.den THEN x.den ELSE y.den
  IN  [num |-> x.num * (den \div x.den) + y.num * (den \div y.den), den |-> den]

\* toFixed with the digits after the f-th cut off
toFixedTruncated(x, f) ==
  IF x.den <= Pow10(f)
    THEN Dec(x.num * (Pow10(f) \div x.den), f)
    ELSE Dec(x.num \div (x.den \div Pow10(f)), f)

\* Number.prototype.toFixed(f): the decimal string with f fractional digits
\* nearest to x, the larger one on a tie
toFixed(x, f) ==
  IF x.den <= Pow10(f)
    THEN Dec(x.num * (Pow10(f) \div x.den), f)
    ELSE LET p == x.den \div Pow10(f)
         IN  Dec((2 * x.num + p) \div (2 * p), f)

(***************************************************************************)
(* Records of a rate.  A hop (OptimalSwap) is an object of the heap; the   *)
(* swapExchanges, their data.path and poolAddresses are arrays it owns.    *)
(***************************************************************************)
Leg(tokenIn, tokenOut) == [tokenIn |-> tokenIn, tokenOut |-> tokenOut]

SwapExchange(exchange, srcAmount, destAmount, percent, path, gasUSD, poolAddresses) ==
  [exchange |-> exchange, srcAmount |-> srcAmount, destAmount |-> destAmount,
   percent |-> percent, data |-> [path |-> path, gasUSD |-> gasUSD],
   poolAddresses |-> poolAddresses]

OptimalSwap(srcToken, srcDecimals, destToken, destDecimals, swapExchanges) ==
  [srcToken |-> srcToken, srcDecimals |-> srcDecimals, destToken |-> destToken,
   destDecimals |-> destDecimals, swapExchanges |-> swapExchanges]

(***************************************************************************)
(* curveV1Merge.                                                           *)
(* The state of fixRoute's forEach: the heap, the output array of hop      *)
(* references, the pending candidate (0 is `false`), and fusedFrom, a      *)
(* history of the input indices each output hop was made from.             *)
(***************************************************************************)
\* the negation of the first test of the forEach callback: the hop can merge
IsCurveHop(s) ==
  /\ Len(s.swapExchanges) = 1
  /\ toLowerCase(s.swapExchanges[1].exchange) \in CurveV1FactoryForks

\* the second test: the pending candidate's path ends where the hop's begins
BoundaryMatches(lastExchange, s) ==
  toLowerCase(last(lastExchange.swapExchanges[1].data.path).tokenOut)
    = toLowerCase(s.swapExchanges[1].data.path[1].tokenIn)

\* Fuse with the leg put in front of the path (unshift for push)
FuseUnshift(lastExchange, s) ==
  [lastExchange EXCEPT
     !.swapExchanges[1].data.path = <<s.swapExchanges[1].data.path[1]>> \o @,
     !.swapExchanges[1].poolAddresses = Append(@, s.swapExchanges[1].poolAddresses[1]),
     !.swapExchanges[1].data.gasUSD =
        toFixed(Plus(parseFloat(@), parseFloat(s.swapExchanges[1].data.gasUSD)), 6),
     !.destToken = s.destToken,
     !.destDecimals = s.destDecimals,
     !.swapExchanges[1].destAmount = s.swapExchanges[1].destAmount]

\* Fuse without the update of the destination side
FuseKeepDest(lastExchange, s) ==
  [lastExchange EXCEPT
     !.swapExchanges[1].data.path = Append(@, s.swapExchanges[1].data.path[1]),
     !.swapExchanges[1].poolAddresses = Append(@, s.swapExchanges[1].poolAddresses[1]),
     !.swapExchanges[1].data.gasUSD =
        toFixed(Plus(parseFloat(@), parseFloat(s.swapExchanges[1].data.gasUSD)), 6)]

\* Fuse with the destination token taken from the hop's source side
FuseDestFromSrc(lastExchange, s) ==
  [lastExchange EXCEPT
     !.swapExchanges[1].data.path = Append(@, s.swapExchanges[1].data.path[1]),
     !.swapExchanges[1].poolAddresses = Append(@, s.swapExchanges[1].poolAddresses[1]),
     !.swapExchanges[1].data.gasUSD =
        toFixed(Plus(parseFloat(@), parseFloat(s.swapExchanges[1].data.gasUSD)), 6),
     !.destToken = s.srcToken,
     !.destDecimals = s.srcDecimals,
     !.swapExchanges[1].destAmount = s.swapExchanges[1].destAmount]

\* the in-place fusion of hop s into the pending candidate
Fuse(lastExchange, s) ==
  [lastExchange EXCEPT
     !.swapExchanges[1].data.path = Append(@, s.swapExchanges[1].data.path[1]),
     !.swapExchanges[1].poolAddresses = Append(@, s.swapExchanges[1].poolAddresses[1]),
     !.swapExchanges[1].data.gasUSD =
        toFixed(Plus(parseFloat(@), parseFloat(s.swapExchanges[1].data.gasUSD)), 6),
     !.destToken = s.destToken,
     !.destDecimals = s.destDecimals,
     !.swapExchanges[1].destAmount = s.swapExchanges[1].destAmount]

\* _.cloneDeep(s): a new object with the same content
cloneDeep(heap, ref) == Append(heap, heap[ref])

\* forEachSwap without `lastExchange = false` for a hop that cannot merge
forEachSwapNoReset(st, ref, k) ==
  LET s == st.heap[ref]
  IN  IF ~IsCurveHop(s)
        THEN [st EXCEPT !.optimizedRate = Append(@, ref),
                        !.fusedFrom = Append(@, <<k>>)]
      ELSE IF /\ st.lastExchange # 0
              /\ BoundaryMatches(st.heap[st.lastExchange], s)
        THEN [st EXCEPT !.heap[st.lastExchange] = Fuse(@, s),
                        !.fusedFrom[CHOOSE o \in DOMAIN st.optimizedRate :
                                      st.optimizedRate[o] = st.lastExchange] = Append(@, k)]
      ELSE [st EXCEPT !.heap = cloneDeep(@, ref),
                      !.lastExchange = Len(st.heap) + 1,
                      !.optimizedRate = Append(@, Len(st.heap) + 1),
                      !.fusedFrom = Append(@, <<k>>)]

\* forEachSwap with `lastExchange = s` for `lastExchange = _.cloneDeep(s)`
forEachSwapAliased(st, ref, k) ==
  LET s == st.heap[ref]
  IN  IF ~IsCurveHop(s)
        THEN [st EXCEPT !.lastExchange = 0,
                        !.optimizedRate = Append(@, ref),
                        !.fusedFrom = Append(@, <<k>>)]
      ELSE IF /\ st.lastExchange # 0
              /\ BoundaryMatches(st.heap[st.lastExchange], s)
        THEN [st EXCEPT !.heap[st.lastExchange] = Fuse(@, s),
                        !.fusedFrom[Len(st.fusedFrom)] = Append(@, k)]
      ELSE [st EXCEPT !.lastExchange = ref,
                      !.optimizedRate = Append(@, ref),
                      !.fusedFrom = Append(@, <<k>>)]

\* one call of the forEach callback, on the k-th hop of rawRate
forEachSwap(st, ref, k) ==
  LET s == st.heap[ref]
  IN  IF ~IsCurveHop(s)
        THEN [st EXCEPT !.lastExchange = 0,
                        !.optimizedRate = Append(@, ref),
                        !.fusedFrom = Append(@, <<k>>)]
      ELSE IF /\ st.lastExchange # 0
              /\ BoundaryMatches(st.heap[st.lastExchange], s)
        THEN [st EXCEPT !.heap[st.lastExchange] = Fuse(@, s),
                        !.fusedFrom[Len(st.fusedFrom)] = Append(@, k)]
      ELSE [st EXCEPT !.heap = cloneDeep(@, ref),
                      !.lastExchange = Len(st.heap) + 1,
                      !.optimizedRate = Append(@, Len(st.heap) + 1),
                      !.fusedFrom = Append(@, <<k>>)]

RECURSIVE forEach(_, _, _)
forEach(rawRate, k, st) ==
  IF k > Len(rawRate) THEN st ELSE forEach(rawRate, k + 1, forEachSwap(st, rawRate[k], k))

fixRoute(heap, rawRate) ==
  forEach(rawRate, 1,
          [heap |-> heap, lastExchange |-> 0, optimizedRate |-> <<>>, fusedFrom |-> <<>>])

\* spreadRoute without the spread of r
spreadRouteNoPercent(r, swaps) == [percent |-> 100, swaps |-> swaps]

\* the route object built by the map callback: { ...r, swaps }
spreadRoute(r, swaps) == [r EXCEPT !.swaps = swaps]

\* or.bestRoute.map(...), route by route over the same heap
RECURSIVE mapRoutes(_, _, _)
mapRoutes(bestRoute, i, acc) ==
  IF i > Len(bestRoute) THEN acc
  ELSE LET fixed == fixRoute(acc.heap, bestRoute[i].swaps)
       IN  mapRoutes(bestRoute, i + 1,
                     [heap |-> fixed.heap,
                      bestRoute |-> Append(acc.bestRoute,
                                           spreadRoute(bestRoute[i], fixed.optimizedRate)),
                      fusedFrom |-> Append(acc.fusedFrom, fixed.fusedFrom)])

\* IsOptimised without the version test
IsOptimisedAlways(rate) == TRUE

\* apply optimisation only for V6
IsOptimised(rate) == rate.version = V6

\* the history of a call that fused nothing: every hop stands for itself
Unfused(rate) ==
  [r \in DOMAIN rate.bestRoute |-> [k \in DOMAIN rate.bestRoute[r].swaps |-> <<k>>]]

\* curveV1Merge(or): the rate object returned, and the heap after the call
curveV1Merge(rate, heap) ==
  IF ~IsOptimised(rate)
    THEN [or |-> rate, heap |-> heap, fusedFrom |-> Unfused(rate)]
    ELSE LET m == mapRoutes(rate.bestRoute, 1,
                            [heap |-> heap, bestRoute |-> <<>>, fusedFrom |-> <<>>])
         IN  [or |-> [rate EXCEPT !.bestRoute = m.bestRoute],
              heap |-> m.heap, fusedFrom |-> m.fusedFrom]

(***************************************************************************)
(* The rates curveV1Merge is applied to.  Hop i of a route goes from       *)
(* token i to token i + 1 unless its kind says otherwise; amounts, pools   *)
(* and gas differ from hop to hop, so that a hop is recognised wherever it *)
(* ends up.                                                                *)
(***************************************************************************)
HopKinds ==
  {"plain", "twoLeg", "upper", "alias", "bridge", "foreign", "split", "repeat", "skipIn"}

Token(id) == Str(id, FALSE)

Checksummed(id) == Str(id, TRUE)

DecimalsOf(token) == 6 + (token.lower % 13)

PoolOf(r, i, n) == Str(100 * r + 10 * i + n, FALSE)

GasOf(i, kind) == IF kind = "twoLeg" THEN Dec(1234565 + i, 7) ELSE Dec(15 + i, 1)

ExchangeOf(kind) ==
  CASE kind = "foreign" -> Str("uniswapv3", TRUE)
    [] kind = "upper"   -> Str("curvev1factory", TRUE)
    [] kind = "twoLeg"  -> Str("curvev1stableng", TRUE)
    [] kind = "plain"   -> Str("curvev1factory", FALSE)
    [] OTHER            -> Str("curvev1stableng", FALSE)

PathOf(i, kind) ==
  CASE kind = "twoLeg" -> <<Leg(Token(i), Token(20 + i)), Leg(Token(20 + i), Token(i + 1))>>
    [] kind = "upper"  -> <<Leg(Checksummed(i), Checksummed(i + 1))>>
    [] kind = "alias"  -> <<Leg(Token(40 + i), Token(i + 1))>>
    [] kind = "repeat" -> <<Leg(Token(i - 1), Token(i))>>
    [] kind = "skipIn" -> <<Leg(Token(i - 1), Token(i + 1))>>
    [] OTHER           -> <<Leg(Token(i), Token(i + 1))>>

PoolsOf(r, i, kind) ==
  IF kind = "twoLeg" THEN <<PoolOf(r, i, 1), PoolOf(r, i, 2)>> ELSE <<PoolOf(r, i, 1)>>

SrcOf(i, kind) ==
  CASE kind = "bridge" -> Token(60 + i)
    [] kind = "upper"  -> Checksummed(i)
    [] kind = "repeat" -> Token(i - 1)
    [] kind = "skipIn" -> Token(i - 1)
    [] OTHER           -> Token(i)

DestOf(i, kind) ==
  CASE kind = "upper"  -> Checksummed(i + 1)
    [] kind = "repeat" -> Token(i)
    [] OTHER           -> Token(i + 1)

\* hop i of route r
MakeHop(r, i, kind) ==
  LET src  == 1000 * r + 10 * i
      dest == 1000 * r + 10 * (i + 1)
      one  == SwapExchange(ExchangeOf(kind), src, dest, 100, PathOf(i, kind),
                           GasOf(i, kind), PoolsOf(r, i, kind))
  IN  OptimalSwap(SrcOf(i, kind), DecimalsOf(SrcOf(i, kind)),
                  DestOf(i, kind), DecimalsOf(DestOf(i, kind)),
                  IF kind = "split"
                    THEN <<[one EXCEPT !.percent = 50],
                           [one EXCEPT !.percent = 50, !.poolAddresses = <<PoolOf(r, i, 2)>>]>>
                    ELSE <<one>>)

\* a rate of n hops: cuts[j] says that a new route starts after hop j
RouteOf(cuts, j) == 1 + Cardinality({k \in 1 .. j - 1 : cuts[k]})

FirstOfRoute(cuts, r) == CHOOSE j \in 1 .. Len(cuts) + 1 :
  /\ RouteOf(cuts, j) = r
  /\ \A k \in 1 .. j - 1 : RouteOf(cuts, k) < r

HopsOfRoute(cuts, r) == Cardinality({j \in 1 .. Len(cuts) + 1 : RouteOf(cuts, j) = r})

PercentOf(r, routes) ==
  IF r < routes THEN 10 * r ELSE 100 - 5 * routes * (routes - 1)

MakeHeap(kinds, cuts) ==
  [j \in 1 .. Len(kinds) |->
     MakeHop(RouteOf(cuts, j), j - FirstOfRoute(cuts, RouteOf(cuts, j)) + 1, kinds[j])]

MakeRate(version, kinds, cuts) ==
  LET routes == RouteOf(cuts, Len(kinds))
  IN  [version |-> version, srcAmount |-> 1000, destAmount |-> 2000,
       bestRoute |->
         [r \in 1 .. routes |->
            [percent |-> PercentOf(r, routes),
             swaps |-> [i \in 1 .. HopsOfRoute(cuts, r) |-> FirstOfRoute(cuts, r) + i - 1]]]]

\* the rate with every hop reference replaced by the hop it refers to
Content(rate, heap) ==
  [rate EXCEPT !.bestRoute =
     [r \in DOMAIN rate.bestRoute |->
        [rate.bestRoute[r] EXCEPT !.swaps =
           [i \in DOMAIN rate.bestRoute[r].swaps |-> heap[rate.bestRoute[r].swaps[i]]]]]]

None == "none"

(***************************************************************************)
(* buildTransaction.                                                       *)
(* A promise is pending, fulfilled with a value or rejected with an error. *)
(***************************************************************************)
Pending == [state |-> "pending", value |-> None]

Fulfilled(value) == [state |-> "fulfilled", value |-> value]

Rejected(error) == [state |-> "rejected", value |-> error]

\* the array Promise.all resolves to: the values in the order of the promises
PromiseAllReversed(promises) ==
  [i \in DOMAIN promises |-> promises[Len(promises) + 1 - i].value]

PromiseAll(promises) == [i \in DOMAIN promises |-> promises[i].value]

AllFulfilled(promises) == \A i \in DOMAIN promises : promises[i].state = "fulfilled"

AnyRejected(promises) == \E i \in DOMAIN promises : promises[i].state = "rejected"

\* the error Promise.all rejects with when some promises are rejected from
\* the start: the one whose handler runs first
FirstRejection(promises) ==
  promises[CHOOSE i \in DOMAIN promises :
             /\ promises[i].state = "rejected"
             /\ \A k \in 1 .. i - 1 : promises[k].state # "rejected"].value

(***************************************************************************)
(* The venues behind se.exchange, by what their dex object offers.         *)
(***************************************************************************)
Venues == {"plain", "pre", "noLookup"}

\* dexLibExchange && dexLibExchange.preProcessTransaction
HasPreProcessTransaction(exchange) == exchange \in {"pre", "noLookup"}

\* dexLibExchange.getTokenFromAddress
HasGetTokenFromAddress(exchange) == exchange = "pre"

\* the addresses the venues' getTokenFromAddress knows
KnownTokens == {Token(1), Token(2)}

\* dexLibExchange.getTokenFromAddress(address): the token object (<<token>>),
\* or undefined (<<>>) for an address the venue does not know
getTokenFromAddress(exchange, address) ==
  IF address \in KnownTokens
    THEN <<[address |-> address, decimals |-> DecimalsOf(address)]>>
    ELSE <<>>

\* txInfo.deadline as a venue may return it: absent (<<>>), or a bigint of
\* seconds (<<d>>)
TxDeadlines == {<<>>} \cup {<<d>> : d \in {0, 1300, 1500, 1900}}

\* Math.floor(Date.now() / 1000) at the call
Clock == {1000}

\* 10 min
DeadlineWindow == 10 * 60

\* preprocessedRoute: the exchange record a venue hands back
PreProcessed(se) == [se EXCEPT !.data.preprocessed = TRUE]

GetTokenError(r, s, e) == [message |-> "need to implement getTokenFromAddress", at |-> <<r, s, e>>]

PreProcessError(r, s, e) == [message |-> "preProcessTransaction failed", at |-> <<r, s, e>>]

\* Number.prototype.toString
toString(n) == [decimal |-> n]

\* Number(x) of a bigint <<d>>
Number(x) == x[1]

(***************************************************************************)
(* The rates buildTransaction is called with: n exchanges in a row, cut    *)
(* into swaps and routes; each exchange record carries its own data.       *)
(***************************************************************************)
Cuts == {"same", "swap", "route"}

Max(S) == CHOOSE x \in S : \A y \in S : y <= x

RouteIx(cuts, j) == 1 + Cardinality({k \in 1 .. j - 1 : cuts[k] = "route"})

SwapIx(cuts, j) ==
  1 + Cardinality({k \in Max({k \in 1 .. j - 1 : cuts[k] = "route"} \cup {0}) + 1 .. j - 1 :
                     cuts[k] = "swap"})

ExchangeIx(cuts, j) == j - Max({k \in 1 .. j - 1 : cuts[k] # "same"} \cup {0})

MakePriceRoute(venues, cuts) ==
  LET n == Len(venues)
      at(r, s, e) == CHOOSE j \in 1 .. n :
                       RouteIx(cuts, j) = r /\ SwapIx(cuts, j) = s /\ ExchangeIx(cuts, j) = e
      swapsOf(r) == Max({SwapIx(cuts, j) : j \in {k \in 1 .. n : RouteIx(cuts, k) = r}})
      exchangesOf(r, s) ==
        Cardinality({j \in 1 .. n : RouteIx(cuts, j) = r /\ SwapIx(cuts, j) = s})
  IN  [bestRoute |->
         [r \in 1 .. RouteIx(cuts, n) |->
            [percent |-> PercentOf(r, RouteIx(cuts, n)),
             swaps |->
               [s \in 1 .. swapsOf(r) |->
                  [srcToken |-> Token(s), destToken |-> Token(s + 1),
                   swapExchanges |->
                     [e \in 1 .. exchangesOf(r, s) |->
                        [exchange |-> venues[at(r, s, e)],
                         data |-> [id |-> at(r, s, e), preprocessed |-> FALSE]]]]]]]]

(***************************************************************************)
(* getPrices.                                                              *)
(***************************************************************************)
chunks == 10

\* _.range(start, end): start, start + 1, ..., end - 1
range(start, end) == [i \in 1 .. end - start |-> start + i - 1]

\* BigInt division of non-negative values: the quotient without its fraction
BigIntDiv(a, b) == a \div b

\* Sample with the division before the multiplication
SampleDivideFirst(amount, i) == BigIntDiv(amount, chunks) * i

\* the callback of amounts: (amount * BigInt(i)) / BigInt(chunks)
Sample(amount, i) == BigIntDiv(amount * i, chunks)

\* _.range(0, chunks + 1).map(...)
Amounts(amount) ==
  LET is == range(0, chunks + 1) IN [k \in DOMAIN is |-> Sample(amount, is[k])]

SELL == "SELL"

BUY == "BUY"

\* the venues getPoolPrices may quote, and what one unit is quoted at
QuotingVenues == {"uniswapv3", "curvev1factory"}

UnitPrice(venue, side) ==
  (IF venue = "uniswapv3" THEN 2 ELSE 3) + (IF side = SELL THEN 0 ELSE 2)

\* one element of the list getPoolPrices returns: prices[i] answers amounts[i]
PoolPrice(venue, amounts, side) ==
  [exchange |-> venue,
   prices |-> [k \in DOMAIN amounts |-> UnitPrice(venue, side) * amounts[k]],
   data |-> [payload |-> venue],
   poolAddresses |-> <<Str(venue, FALSE)>>,
   gasCost |-> 100000]

\* the tokens of the request
FromToken == [address |-> Checksummed(1), decimals |-> 18]

ToToken == [address |-> Checksummed(2), decimals |-> 6]

\* finalPrice taken from the end of the list
finalPriceLast(poolPrices) == last(poolPrices)

\* const finalPrice = poolPrices[0]
finalPrice(poolPrices) == poolPrices[1]

\* finalPrice.prices[chunks]
quoteAmount(poolPrices) == finalPrice(poolPrices).prices[chunks + 1]

\* the object literal unoptimizedRate
UnoptimizedRate(from, to, amount, side, poolPrices) ==
  LET srcAmount  == toString(IF side = SELL THEN amount ELSE quoteAmount(poolPrices))
      destAmount == toString(IF side = SELL THEN quoteAmount(poolPrices) ELSE amount)
  IN  [srcToken |-> from.address, srcDecimals |-> from.decimals, srcAmount |-> srcAmount,
       destToken |-> to.address, destDecimals |-> to.decimals, destAmount |-> destAmount,
       bestRoute |->
         <<[percent |-> 100,
            swaps |->
              <<[srcToken |-> from.address, srcDecimals |-> from.decimals,
                 destToken |-> to.address, destDecimals |-> to.decimals,
                 swapExchanges |->
                   <<[exchange |-> finalPrice(poolPrices).exchange,
                      srcAmount |-> srcAmount,
                      destAmount |-> destAmount,
                      percent |-> 100,
                      data |-> finalPrice(poolPrices).data,
                      poolAddresses |-> finalPrice(poolPrices).poolAddresses]>>]>>]>>,
       gasCostUSD |-> "0", gasCost |-> "0", others |-> <<>>,
       version |-> V5, side |-> side]

\* pricingHelper.optimizeRate: the route optimizers applied to the rate, of
\* which curveV1Merge is the one modelled; it leaves the hop objects alone
optimizeRate(ur) == curveV1Merge(ur, <<>>).or

VARIABLES
  or,          \* the rate object handed to curveV1Merge
  heap,        \* the hop objects
  input,       \* history: the rate and the heap before the first call
  once,        \* history: the content of the rate after the first call
  calls,       \* how many times curveV1Merge has been applied
  fusedFrom,   \* history: per route and output hop of the last call, its input hops
  pc,          \* buildTransaction: "start", "awaiting", "built" or "thrown"
  now,         \* the time of the call, in seconds
  priceRoute,  \* the rate object handed to buildTransaction
  deadline,    \* the local variable deadline
  exchangeP,   \* [r][s][e]: the promise of the callback of one swapExchange
  swapP,       \* [r][s]: the promise of the callback of one swap
  routeP,      \* [r]: the promise of the callback of one route
  payload,     \* the argument of transactionBuilder.build, once called: <<p>>
  thrown,      \* the error buildTransaction threw, once thrown: <<e>>
  original,    \* history: priceRoute as it was handed in
  proposed,    \* history: the txInfo.deadline values preprocessing has returned
  overtaken,   \* history: a preprocessing call returned before an earlier one
  invoked,     \* history: the calls of preProcessTransaction, with their token arguments
  pcPrices,    \* getPrices: "start", "pricing", "returned" or "thrown"
  amount,      \* the amount getPrices is asked to price
  side,        \* SELL or BUY
  quoting,     \* what getPoolPrices will answer: null (<<>>) or the venues quoting (<<vs>>)
  amounts,     \* the sample amounts handed to getPoolPrices
  poolPrices,  \* the answer of getPoolPrices: null (<<>>) or a list (<<list>>)
  returned     \* the rate getPrices returned, once returned: <<rate>>

mergeVars == <<or, heap, input, once, calls, fusedFrom>>

buildVars == <<pc, now, priceRoute, deadline, exchangeP, swapP, routeP, payload, thrown,
               original, proposed, overtaken, invoked>>

pricesVars == <<pcPrices, amount, side, quoting, amounts, poolPrices, returned>>

vars == <<or, heap, input, once, calls, fusedFrom, pc, now, priceRoute, deadline,
          exchangeP, swapP, routeP, payload, thrown, original, proposed, overtaken,
          invoked,
          pcPrices, amount, side, quoting, amounts, poolPrices, returned>>

\* no rate is being merged
NoMerge ==
  /\ or = None /\ heap = <<>> /\ input = None /\ once = None /\ calls = 0
  /\ fusedFrom = <<>>

\* no transaction is being built
NoBuild ==
  /\ pc = None /\ now = 0 /\ priceRoute = None /\ deadline = 0
  /\ exchangeP = <<>> /\ swapP = <<>> /\ routeP = <<>>
  /\ payload = <<>> /\ thrown = <<>>
  /\ original = None /\ proposed = {} /\ overtaken = FALSE /\ invoked = {}

\* no price is being asked for
NoPrices ==
  /\ pcPrices = None /\ amount = 0 /\ side = None /\ quoting = <<>>
  /\ amounts = <<>> /\ poolPrices = <<>> /\ returned = <<>>

InitMerge ==
  /\ \E n \in 1 .. MaxHops :
       \E kinds \in [1 .. n -> HopKinds], cuts \in [1 .. n - 1 -> BOOLEAN], version \in {V5, V6} :
         /\ or = MakeRate(version, kinds, cuts)
         /\ heap = MakeHeap(kinds, cuts)
  /\ input = [or |-> or, heap |-> heap]
  /\ once = None
  /\ calls = 0
  /\ fusedFrom = Unfused(or)
  /\ NoBuild
  /\ NoPrices

\* or := curveV1Merge(or)
CurveV1Merge ==
  /\ calls < MaxCalls
  /\ \E m \in {curveV1Merge(or, heap)} :
         /\ or' = m.or
         /\ heap' = m.heap
         /\ fusedFrom' = m.fusedFrom
         /\ once' = IF calls = 0 THEN Content(m.or, m.heap) ELSE once
  /\ calls' = calls + 1
  /\ UNCHANGED input
  /\ UNCHANGED buildVars
  /\ UNCHANGED pricesVars

NextMerge == CurveV1Merge

SpecMerge == InitMerge /\ [][NextMerge]_vars

(***************************************************************************)
(* buildTransaction: the call, and the resumptions of its callbacks.       *)
(***************************************************************************)
Init ==
  /\ \E n \in 1 .. MaxExchanges :
       \E venues \in [1 .. n -> Venues], cuts \in [1 .. n - 1 -> Cuts] :
         priceRoute = MakePriceRoute(venues, cuts)
  /\ now \in Clock
  /\ pc = "start"
  /\ deadline = 0
  /\ exchangeP = <<>> /\ swapP = <<>> /\ routeP = <<>>
  /\ payload = <<>> /\ thrown = <<>>
  /\ original = priceRoute
  /\ proposed = {}
  /\ overtaken = FALSE
  /\ invoked = {}
  /\ NoMerge
  /\ NoPrices

RouteIxs == DOMAIN original.bestRoute

SwapIxs(r) == DOMAIN original.bestRoute[r].swaps

ExchangeIxs(r, s) == DOMAIN original.bestRoute[r].swaps[s].swapExchanges

\* StartExchange without the test of the venue's preProcessTransaction
StartExchangeUntested(se, r, s, e) == Pending

\* the callback of one swapExchange, up to its await: returns se, throws, or
\* is suspended on preProcessTransaction
StartExchange(se, r, s, e) ==
  IF HasPreProcessTransaction(se.exchange)
    THEN IF ~HasGetTokenFromAddress(se.exchange)
           THEN Rejected(GetTokenError(r, s, e))
           ELSE Pending
    ELSE Fulfilled(se)

\* the call dexLibExchange.preProcessTransaction(se, getTokenFromAddress(swap.srcToken),
\* getTokenFromAddress(swap.destToken), ...) made for the swapExchange at (r, s, e)
PreProcessCall(r, s, e) ==
  LET swap == priceRoute.bestRoute[r].swaps[s]
  IN  [at |-> <<r, s, e>>,
       srcToken |-> getTokenFromAddress(swap.swapExchanges[e].exchange, swap.srcToken),
       destToken |-> getTokenFromAddress(swap.swapExchanges[e].exchange, swap.destToken)]

\* the promise of a callback awaiting Promise.all(promises), as it stands
\* once the promises rejected from the start have been heard
AwaitAll(promises) ==
  IF AnyRejected(promises) THEN Rejected(FirstRejection(promises)) ELSE Pending

\* the synchronous part of buildTransaction: every callback runs to its await
BuildTransaction ==
  /\ pc = "start"
  /\ deadline' = now + DeadlineWindow
  /\ LET exchanges == [r \in RouteIxs |-> [s \in SwapIxs(r) |-> [e \in ExchangeIxs(r, s) |->
                         StartExchange(priceRoute.bestRoute[r].swaps[s].swapExchanges[e],
                                       r, s, e)]]]
         swaps == [r \in RouteIxs |-> [s \in SwapIxs(r) |-> AwaitAll(exchanges[r][s])]]
         routes == [r \in RouteIxs |-> AwaitAll(swaps[r])]
     IN  /\ exchangeP' = exchanges
         /\ invoked' =
              {PreProcessCall(r, s, e) : <<r, s, e>> \in
                 {p \in UNION {UNION {{<<r, s, e>> : e \in ExchangeIxs(r, s)} :
                                        s \in SwapIxs(r)} : r \in RouteIxs} :
                    exchanges[p[1]][p[2]][p[3]].state = "pending"}}
         /\ swapP' = swaps
         /\ routeP' = routes
         /\ IF AnyRejected(routes)
              THEN pc' = "thrown" /\ thrown' = <<FirstRejection(routes)>>
              ELSE pc' = "awaiting" /\ thrown' = thrown
  /\ UNCHANGED <<now, priceRoute, payload, original, proposed, overtaken>>
  /\ UNCHANGED mergeVars
  /\ UNCHANGED pricesVars

\* Reconcile without the comparison with the current deadline
ReconcileUncompared(current, txDeadline) ==
  IF txDeadline # <<>> /\ txDeadline # <<0>> THEN Number(txDeadline) ELSE current

\* the reconciliation of the deadline with txInfo.deadline
Reconcile(current, txDeadline) ==
  IF txDeadline # <<>> /\ txDeadline # <<0>> /\ Number(txDeadline) < current
    THEN Number(txDeadline)
    ELSE current

\* some swapExchange before (r, s, e) is still being preprocessed
EarlierPending(r, s, e) ==
  \E r2 \in RouteIxs : \E s2 \in SwapIxs(r2) : \E e2 \in ExchangeIxs(r2, s2) :
    /\ exchangeP[r2][s2][e2].state = "pending"
    /\ \/ r2 < r
       \/ r2 = r /\ s2 < s
       \/ r2 = r /\ s2 = s /\ e2 < e

\* preProcessTransaction of (r, s, e) returns [preprocessedRoute, txInfo]:
\* the callback resumes, reconciles the deadline and returns
PreProcessReturns(r, s, e, txDeadline) ==
  /\ pc # "start"
  /\ exchangeP[r][s][e].state = "pending"
  /\ deadline' = Reconcile(deadline, txDeadline)
  /\ exchangeP' = [exchangeP EXCEPT ![r][s][e] =
                     Fulfilled(PreProcessed(original.bestRoute[r].swaps[s].swapExchanges[e]))]
  /\ proposed' = proposed \cup {txDeadline}
  /\ overtaken' = (overtaken \/ EarlierPending(r, s, e))
  /\ UNCHANGED <<pc, now, priceRoute, swapP, routeP, payload, thrown, original, invoked>>
  /\ UNCHANGED mergeVars
  /\ UNCHANGED pricesVars

\* Hear with the rejection swallowed
HearNothing(promise, error) == promise

\* a promise awaiting a Promise.all one of whose promises rejects with error
Hear(promise, error) == IF promise.state = "pending" THEN Rejected(error) ELSE promise

\* preProcessTransaction of (r, s, e) rejects: the callback throws, and each
\* Promise.all above it that is still pending rejects with the same error,
\* up to the catch that rethrows it
PreProcessThrows(r, s, e) ==
  /\ pc # "start"
  /\ exchangeP[r][s][e].state = "pending"
  /\ LET error == PreProcessError(r, s, e)
         swap == Hear(swapP[r][s], error)
         route == IF swapP[r][s].state = "pending" /\ swap.state = "rejected"
                    THEN Hear(routeP[r], error)
                    ELSE routeP[r]
     IN  /\ exchangeP' = [exchangeP EXCEPT ![r][s][e] = Rejected(error)]
         /\ swapP' = [swapP EXCEPT ![r][s] = swap]
         /\ routeP' = [routeP EXCEPT ![r] = route]
         /\ IF routeP[r].state = "pending" /\ route.state = "rejected" /\ pc = "awaiting"
              THEN pc' = "thrown" /\ thrown' = <<error>>
              ELSE UNCHANGED <<pc, thrown>>
  /\ UNCHANGED <<now, priceRoute, deadline, payload, original, proposed, overtaken,
                 invoked>>
  /\ UNCHANGED mergeVars
  /\ UNCHANGED pricesVars

\* every swapExchange of swap (r, s) is done: swap.swapExchanges = ...; return swap
SwapResumes(r, s) ==
  /\ pc # "start"
  /\ swapP[r][s].state = "pending"
  /\ AllFulfilled(exchangeP[r][s])
  /\ priceRoute' = [priceRoute EXCEPT
                      !.bestRoute[r].swaps[s].swapExchanges = PromiseAll(exchangeP[r][s])]
  /\ swapP' = [swapP EXCEPT ![r][s] = Fulfilled(s)]
  /\ UNCHANGED <<pc, now, deadline, exchangeP, routeP, payload, thrown, original, proposed,
                 overtaken, invoked>>
  /\ UNCHANGED mergeVars
  /\ UNCHANGED pricesVars

\* every swap of route r is done: route.swaps = ...; return route
RouteResumes(r) ==
  /\ pc # "start"
  /\ routeP[r].state = "pending"
  /\ AllFulfilled(swapP[r])
  /\ priceRoute' = [priceRoute EXCEPT
                      !.bestRoute[r].swaps =
                         [i \in DOMAIN swapP[r] |-> @[PromiseAll(swapP[r])[i]]]]
  /\ routeP' = [routeP EXCEPT ![r] = Fulfilled(r)]
  /\ UNCHANGED <<pc, now, deadline, exchangeP, swapP, payload, thrown, original, proposed,
                 overtaken, invoked>>
  /\ UNCHANGED mergeVars
  /\ UNCHANGED pricesVars

\* every route is done: priceRoute.bestRoute = ...; transactionBuilder.build(...)
Build ==
  /\ pc = "awaiting"
  /\ AllFulfilled(routeP)
  /\ priceRoute' = [priceRoute EXCEPT
                      !.bestRoute = [i \in DOMAIN routeP |-> @[PromiseAll(routeP)[i]]]]
  /\ payload' = <<[priceRoute |-> priceRoute', deadline |-> toString(deadline)]>>
  /\ pc' = "built"
  /\ UNCHANGED <<now, deadline, exchangeP, swapP, routeP, thrown, original, proposed,
                 overtaken, invoked>>
  /\ UNCHANGED mergeVars
  /\ UNCHANGED pricesVars

Next ==
  \/ BuildTransaction
  \/ \E r \in RouteIxs : \E s \in SwapIxs(r) : \E e \in ExchangeIxs(r, s) :
       \/ \E txDeadline \in TxDeadlines : PreProcessReturns(r, s, e, txDeadline)
       \/ PreProcessThrows(r, s, e)
  \/ \E r \in RouteIxs : \E s \in SwapIxs(r) : SwapResumes(r, s)
  \/ \E r \in RouteIxs : RouteResumes(r)
  \/ Build

Spec == Init /\ [][Next]_vars

(***************************************************************************)
(* getPrices: the call up to its await of getPoolPrices, and its           *)
(* resumption.                                                             *)
(***************************************************************************)
InitPrices ==
  /\ amount \in 0 .. MaxAmount
  /\ side \in {SELL, BUY}
  /\ quoting \in {<<>>} \cup {<<vs>> : vs \in UNION {[1 .. n -> QuotingVenues] : n \in 0 .. MaxQuotes}}
  /\ pcPrices = "start"
  /\ amounts = <<>>
  /\ poolPrices = <<>>
  /\ returned = <<>>
  /\ NoMerge
  /\ NoBuild

\* getPrices up to `await this.pricingHelper.getPoolPrices(...)`
GetPrices ==
  /\ pcPrices = "start"
  /\ amounts' = Amounts(amount)
  /\ pcPrices' = "pricing"
  /\ UNCHANGED <<amount, side, quoting, poolPrices, returned>>
  /\ UNCHANGED mergeVars
  /\ UNCHANGED buildVars

\* { ...optimizedRate, hmac: '0', srcUSD: '0', destUSD: '0', contractMethod, partnerFee: 0 }
spreadRate(optimizedRate, contractMethod) ==
  [k \in DOMAIN optimizedRate
            \cup {"hmac", "srcUSD", "destUSD", "contractMethod", "partnerFee"} |->
     CASE k \in {"hmac", "srcUSD", "destUSD"} -> "0"
       [] k = "contractMethod"                -> contractMethod
       [] k = "partnerFee"                    -> 0
       [] OTHER                               -> optimizedRate[k]]

\* getPoolPrices answers: getPrices throws, or builds the rate and returns it
GetPoolPricesReturns ==
  /\ pcPrices = "pricing"
  /\ poolPrices' = IF quoting = <<>> THEN <<>>
                   ELSE <<[k \in DOMAIN quoting[1] |-> PoolPrice(quoting[1][k], amounts, side)]>>
  /\ IF poolPrices' = <<>> \/ Len(poolPrices'[1]) = 0
       THEN pcPrices' = "thrown" /\ returned' = returned
       ELSE /\ pcPrices' = "returned"
            /\ returned' = <<spreadRate(optimizeRate(
                                          UnoptimizedRate(FromToken, ToToken, amount, side,
                                                          poolPrices'[1])),
                                        "multiSwap")>>
  /\ UNCHANGED <<amount, side, quoting, amounts>>
  /\ UNCHANGED mergeVars
  /\ UNCHANGED buildVars

NextPrices == GetPrices \/ GetPoolPricesReturns

SpecPrices == InitPrices /\ [][NextPrices]_vars

(***************************************************************************)
(* Properties of curveV1Merge (SpecMerge).                                 *)
(***************************************************************************)
Routes == DOMAIN input.or.bestRoute

\* the k-th hop of route r before the first call
In(r, k) == input.heap[input.or.bestRoute[r].swaps[k]]

InLen(r) == Len(input.or.bestRoute[r].swaps)

\* the o-th hop of route r now
Out(r, o) == heap[or.bestRoute[r].swaps[o]]

OutLen(r) == Len(or.bestRoute[r].swaps)

Merged == calls = 1 /\ input.or.version = V6

SomeFused == \E r \in Routes : OutLen(r) < InLen(r)

PathIn(hop) == hop.swapExchanges[1].data.path[1].tokenIn

\* C5: applying curveV1Merge a second time leaves the content of the rate
\* as the first application made it
C5_Idempotent == calls >= 2 => Content(or, heap) = once

C5_Witness ==
  /\ calls = 2
  /\ input.or.version = V6
  /\ SomeFused
  /\ \E r \in Routes : \E k \in 1 .. InLen(r) :
       Len(In(r, k).swapExchanges[1].data.path) = 2
  /\ \E r \in Routes : \E k \in 1 .. InLen(r) :
       In(r, k).srcToken # PathIn(In(r, k))

\* C6: a hop fused from two input hops carries every leg of the first
\* followed by every leg of the second, and both hops' pool addresses
C6_FullConcatenation ==
  Merged =>
    \A r \in Routes : \A o \in 1 .. OutLen(r) :
      LET g == fusedFrom[r][o]
      IN  Len(g) = 2 =>
            /\ Out(r, o).swapExchanges[1].data.path
                 = In(r, g[1]).swapExchanges[1].data.path
                     \o In(r, g[2]).swapExchanges[1].data.path
            /\ Out(r, o).swapExchanges[1].poolAddresses
                 = In(r, g[1]).swapExchanges[1].poolAddresses
                     \o In(r, g[2]).swapExchanges[1].poolAddresses

\* the tokenOut of the last leg on the path accumulated from the first j
\* hops of group g: the last leg of the first hop, the first leg of a later one
SeamOut(r, g, j) ==
  IF j = 1
    THEN last(In(r, g[1]).swapExchanges[1].data.path).tokenOut
    ELSE In(r, g[j]).swapExchanges[1].data.path[1].tokenOut

\* what every fusion satisfies whatever the boundary test: the hops are
\* adjacent in the input, single-exchange and of the mergeable family
FusedAdjacentCurveHops(r, g, j) ==
  /\ g[j + 1] = g[j] + 1
  /\ IsCurveHop(In(r, g[j]))
  /\ IsCurveHop(In(r, g[j + 1]))

\* C7 as claimed: hops are fused only if adjacent, single-exchange, of the
\* family, and the first hop's destToken is the second hop's srcToken
C7_FusedOnlyOnHopTokens ==
  calls = 1 =>
    \A r \in Routes : \A o \in 1 .. OutLen(r) :
      LET g == fusedFrom[r][o]
      IN  \A j \in 1 .. Len(g) - 1 :
            /\ FusedAdjacentCurveHops(r, g, j)
            /\ toLowerCase(In(r, g[j]).destToken) = toLowerCase(In(r, g[j + 1]).srcToken)

\* C7 amended: hops are fused only if adjacent, single-exchange, of the
\* family, and the tokenOut of the last leg of the accumulated path is the
\* tokenIn of the first leg of the next hop's path
C7_FusedOnlyOnPathSeam ==
  calls = 1 =>
    \A r \in Routes : \A o \in 1 .. OutLen(r) :
      LET g == fusedFrom[r][o]
      IN  \A j \in 1 .. Len(g) - 1 :
            /\ FusedAdjacentCurveHops(r, g, j)
            /\ toLowerCase(SeamOut(r, g, j)) = toLowerCase(PathIn(In(r, g[j + 1])))

C7_Witness ==
  /\ Merged
  /\ \E r \in Routes :
       /\ \E o \in 1 .. OutLen(r) : Len(fusedFrom[r][o]) = 2
       /\ \E k \in 1 .. InLen(r) - 1 :
            /\ IsCurveHop(In(r, k)) /\ IsCurveHop(In(r, k + 1))
            /\ \E o \in 1 .. OutLen(r) : fusedFrom[r][o][1] = k + 1

\* whether input hop k of route r opens a run, a run being continued by a
\* hop whose srcToken is the previous hop's destToken
StartsHopRun(r, k) ==
  /\ IsCurveHop(In(r, k))
  /\ \/ k = 1
     \/ ~IsCurveHop(In(r, k - 1))
     \/ toLowerCase(In(r, k - 1).destToken) # toLowerCase(In(r, k).srcToken)

\* whether input hop k of route r opens a run, a run being continued by a
\* hop whose first leg's tokenIn is the tokenOut of the last accumulated leg
RECURSIVE StartsPathRun(_, _)
StartsPathRun(r, k) ==
  /\ IsCurveHop(In(r, k))
  /\ \/ k = 1
     \/ ~IsCurveHop(In(r, k - 1))
     \/ toLowerCase(IF StartsPathRun(r, k - 1)
                      THEN last(In(r, k - 1).swapExchanges[1].data.path).tokenOut
                      ELSE In(r, k - 1).swapExchanges[1].data.path[1].tokenOut)
          # toLowerCase(PathIn(In(r, k)))

\* hops i .. j of route r are a maximal run of at least two hops
MaximalRun(Starts(_, _), r, i, j) ==
  /\ i < j
  /\ Starts(r, i)
  /\ \A m \in i + 1 .. j : IsCurveHop(In(r, m)) /\ ~Starts(r, m)
  /\ j = InLen(r) \/ ~IsCurveHop(In(r, j + 1)) \/ Starts(r, j + 1)

\* output hop o of route r is the one hop made of input hops i .. j, with
\* the source side of hop i and the destination side of hop j
EmittedAsOne(r, i, j, o) ==
  /\ fusedFrom[r][o] = [m \in 1 .. j - i + 1 |-> i + m - 1]
  /\ Len(Out(r, o).swapExchanges) = 1
  /\ Out(r, o).srcToken = In(r, i).srcToken
  /\ Out(r, o).srcDecimals = In(r, i).srcDecimals
  /\ Out(r, o).swapExchanges[1].srcAmount = In(r, i).swapExchanges[1].srcAmount
  /\ Out(r, o).destToken = In(r, j).destToken
  /\ Out(r, o).destDecimals = In(r, j).destDecimals
  /\ Out(r, o).swapExchanges[1].destAmount = In(r, j).swapExchanges[1].destAmount

\* C8 as claimed: every maximal run of hops chained by srcToken / destToken
\* is emitted as one hop from the first hop's source to the last hop's
\* destination
C8_HopRunsEmittedAsOne ==
  Merged =>
    \A r \in Routes : \A i, j \in 1 .. InLen(r) :
      MaximalRun(StartsHopRun, r, i, j) => \E o \in 1 .. OutLen(r) : EmittedAsOne(r, i, j, o)

\* C8 amended: every maximal run of hops chained by the legs of their paths
\* is emitted as one hop from the first hop's source to the last hop's
\* destination
C8_PathRunsEmittedAsOne ==
  Merged =>
    \A r \in Routes : \A i, j \in 1 .. InLen(r) :
      MaximalRun(StartsPathRun, r, i, j) => \E o \in 1 .. OutLen(r) : EmittedAsOne(r, i, j, o)

C8_Witness ==
  /\ Merged
  /\ \E r \in Routes : \E o \in 1 .. OutLen(r) :
       /\ Len(fusedFrom[r][o]) = 3
       /\ MaximalRun(StartsPathRun, r, fusedFrom[r][o][1], fusedFrom[r][o][3])
       /\ Out(r, o).destToken # In(r, fusedFrom[r][o][1]).destToken

\* C9: the top-level amounts, the number and order of the routes and their
\* percents stay as they were, and no route gains a hop
C9_Frame ==
  calls >= 1 =>
    /\ or.srcAmount = input.or.srcAmount
    /\ or.destAmount = input.or.destAmount
    /\ Len(or.bestRoute) = Len(input.or.bestRoute)
    /\ \A r \in Routes :
         /\ or.bestRoute[r].percent = input.or.bestRoute[r].percent
         /\ OutLen(r) <= InLen(r)
         /\ Out(r, 1).swapExchanges[1].srcAmount = In(r, 1).swapExchanges[1].srcAmount

C9_Witness ==
  /\ Merged
  /\ Len(or.bestRoute) >= 2
  /\ SomeFused

\* C10: a rate whose version is not V6 comes back as it went in: the same
\* rate object over the same hop objects, none fused, none copied
C10_OtherVersionsUntouched ==
  (calls >= 1 /\ input.or.version # V6) => (or = input.or /\ heap = input.heap)

C10_Witness ==
  /\ calls >= 1
  /\ input.or.version # V6
  /\ \E r \in Routes : \E k \in 1 .. InLen(r) - 1 :
       /\ IsCurveHop(In(r, k)) /\ IsCurveHop(In(r, k + 1))
       /\ BoundaryMatches(In(r, k), In(r, k + 1))

Abs(x) == IF x < 0 THEN -x ELSE x

\* a gasUSD string as a whole number of units of 10^-7, the finest unit of
\* the gasUSD strings of the input rates
InGasUnits(s) == s.units * Pow10(7 - s.digits)

GasIn(r, k) == In(r, k).swapExchanges[1].data.gasUSD

GasOut(r, o) == Out(r, o).swapExchanges[1].data.gasUSD

\* the exact sum of the gasUSD of the first j input hops of group g
RECURSIVE SumGas(_, _, _)
SumGas(r, g, j) ==
  IF j = 0 THEN 0 ELSE SumGas(r, g, j - 1) + InGasUnits(GasIn(r, g[j]))

InputComposed(r) ==
  \A k \in 1 .. InLen(r) - 1 :
    toLowerCase(In(r, k).destToken) = toLowerCase(In(r, k + 1).srcToken)

OutputComposed(r) ==
  \A o \in 1 .. OutLen(r) - 1 :
    toLowerCase(Out(r, o).destToken) = toLowerCase(Out(r, o + 1).srcToken)

\* C17: a route whose hops were chained by destToken / srcToken before
\* curveV1Merge is chained after it, from the same first srcToken to the
\* same last destToken
C17_CompositionPreserved ==
  calls >= 1 =>
    \A r \in Routes :
      InputComposed(r) =>
        /\ OutputComposed(r)
        /\ Out(r, 1).srcToken = In(r, 1).srcToken
        /\ Out(r, OutLen(r)).destToken = In(r, InLen(r)).destToken

C17_Witness ==
  /\ Merged
  /\ \E r \in Routes :
       /\ InputComposed(r)
       /\ 1 < OutLen(r)
       /\ OutLen(r) < InLen(r)
       /\ Len(fusedFrom[r][OutLen(r)]) = 2

\* C18: an application of curveV1Merge leaves every hop object that
\* existed before it as it was: its tokens, its swapExchanges with their
\* path, pool addresses, gas and amounts
C18_InputHopsUnmodified ==
  [][\A ref \in DOMAIN heap : ref \in DOMAIN heap' /\ heap'[ref] = heap[ref]]_vars

\* a merge that fused a run and copied a hop that stands alone
C18_Witness ==
  /\ Merged
  /\ \E r \in Routes : \E o \in 1 .. OutLen(r) :
       /\ Len(fusedFrom[r][o]) >= 2
       /\ or.bestRoute[r].swaps[o] \notin DOMAIN input.heap
       /\ Out(r, o) # In(r, fusedFrom[r][o][1])
  /\ \E r \in Routes : \E o \in 1 .. OutLen(r) :
       /\ Len(fusedFrom[r][o]) = 1
       /\ or.bestRoute[r].swaps[o] \notin DOMAIN input.heap
       /\ Out(r, o) = In(r, fusedFrom[r][o][1])

(***************************************************************************)
(* Properties of buildTransaction (Spec).                                  *)
(***************************************************************************)
\* the positions of the swapExchanges of the rate handed in
Dispatched ==
  IF pc = "start" THEN {}
  ELSE UNION {UNION {{<<r, s, e>> : e \in ExchangeIxs(r, s)} : s \in SwapIxs(r)} :
                r \in RouteIxs}

StateOf(p) == exchangeP[p[1]][p[2]][p[3]].state

VenueOf(p) == original.bestRoute[p[1]].swaps[p[2]].swapExchanges[p[3]].exchange

Failed == {p \in Dispatched : StateOf(p) = "rejected"}

\* C1: the deadline handed to transactionBuilder.build is the minimum of
\* now + 600 and the deadlines preprocessing proposed
C1_DeadlineIsMinimum ==
  pc = "built" =>
    LET final == payload[1].deadline.decimal
    IN  /\ final <= now + DeadlineWindow
        /\ \A d \in proposed : d # <<>> => final <= d[1]
        /\ final = now + DeadlineWindow \/ <<final>> \in proposed

\* C2: once a preprocessing step has failed, buildTransaction has thrown the
\* error of a failed step and transactionBuilder.build is not called
C2_FailureFailsTheCall ==
  Failed # {} =>
    /\ pc = "thrown"
    /\ payload = <<>>
    /\ Len(thrown) = 1
    /\ \E p \in Failed : thrown[1] = exchangeP[p[1]][p[2]][p[3]].value

C2_Witness ==
  /\ \E p \in Failed : VenueOf(p) = "pre"
  /\ \E p \in Failed : VenueOf(p) = "noLookup"
  /\ \E p \in Dispatched : VenueOf(p) = "pre" /\ StateOf(p) = "fulfilled"
  /\ \A p \in Dispatched : StateOf(p) # "pending"

\* C3: once buildTransaction has thrown, every swapExchanges array of the
\* rate handed in holds the records it held at the call
C3_NoPartialApplication ==
  pc = "thrown" =>
    \A r \in RouteIxs : \A s \in SwapIxs(r) :
      priceRoute.bestRoute[r].swaps[s].swapExchanges
        = original.bestRoute[r].swaps[s].swapExchanges

\* what the callback of a swapExchange returns for the record se
Processed(se) == IF HasPreProcessTransaction(se.exchange) THEN PreProcessed(se) ELSE se

\* C4: the rate handed to transactionBuilder.build has the routes, swaps
\* and swapExchanges of the input rate, and at every position the record
\* that the processing of the input record at that position returned
C4_PositionsPreserved ==
  pc = "built" =>
    LET built == payload[1].priceRoute.bestRoute
    IN  /\ DOMAIN built = RouteIxs
        /\ \A r \in RouteIxs :
             /\ built[r].percent = original.bestRoute[r].percent
             /\ DOMAIN built[r].swaps = SwapIxs(r)
             /\ \A s \in SwapIxs(r) :
                  /\ DOMAIN built[r].swaps[s].swapExchanges = ExchangeIxs(r, s)
                  /\ \A e \in ExchangeIxs(r, s) :
                       built[r].swaps[s].swapExchanges[e]
                         = Processed(original.bestRoute[r].swaps[s].swapExchanges[e])

C4_Witness ==
  /\ pc = "built"
  /\ overtaken
  /\ \E r \in RouteIxs : \E s \in SwapIxs(r) :
       /\ Len(original.bestRoute[r].swaps[s].swapExchanges) >= 2
       /\ \A e \in ExchangeIxs(r, s) :
            original.bestRoute[r].swaps[s].swapExchanges[e].exchange = "pre"

\* the record at position p of the rate handed in
OriginalAt(p) == original.bestRoute[p[1]].swaps[p[2]].swapExchanges[p[3]]

\* the record at position p of the rate handed to transactionBuilder.build
BuiltAt(p) == payload[1].priceRoute.bestRoute[p[1]].swaps[p[2]].swapExchanges[p[3]]

PassedThrough == {p \in Dispatched : ~HasPreProcessTransaction(VenueOf(p))}

\* C15: a swapExchange whose venue has no preProcessTransaction is returned
\* as it is, without a call of preProcessTransaction, and is the record at
\* its position of the rate that is built; the deadline leaves its default
\* only for a deadline that a preprocessing call returned; and whatever
\* deadlines were proposed, every record of the rate that is built is what
\* the processing of the input record at its position returns
C15_PassThroughAndFrame ==
  /\ \A p \in PassedThrough :
       /\ StateOf(p) = "fulfilled"
       /\ exchangeP[p[1]][p[2]][p[3]].value = OriginalAt(p)
       /\ {c \in invoked : c.at = p} = {}
  /\ pc # "start" =>
       \/ deadline = now + DeadlineWindow
       \/ /\ <<deadline>> \in proposed
          /\ \E p \in Dispatched \ PassedThrough : StateOf(p) = "fulfilled"
  /\ pc = "built" =>
       /\ \A p \in PassedThrough : BuiltAt(p) = OriginalAt(p)
       /\ \A p \in Dispatched \ PassedThrough : BuiltAt(p) = PreProcessed(OriginalAt(p))

C15_Witness ==
  /\ pc = "built"
  /\ payload[1].deadline.decimal < now + DeadlineWindow
  /\ Cardinality(Dispatched) = 3
  /\ Cardinality(PassedThrough) = 1
  /\ proposed = {<<>>, <<payload[1].deadline.decimal>>}

Min(S) == CHOOSE x \in S : \A y \in S : x <= y

\* the deadlines among the values returned that the reconciliation takes
\* into account: the ones present and not zero
Counted == {d[1] : d \in {x \in proposed : x # <<>> /\ x # <<0>>}}

\* C16: the deadline that is built is determined by the default and the set
\* of deadlines the preprocessing calls returned, whatever the order of
\* their returns: it is the least of the default and the deadlines counted
C16_DeadlineOrderIndependent ==
  pc = "built" => payload[1].deadline.decimal = Min({now + DeadlineWindow} \cup Counted)

C16_Witness ==
  /\ pc = "built"
  /\ overtaken
  /\ Cardinality({d \in Counted : d < now + DeadlineWindow}) >= 2
  /\ \E d \in Counted : d > now + DeadlineWindow

\* the calls of preProcessTransaction made for the swapExchange at p
CallsFor(p) == {c \in invoked : c.at = p}

\* the venue at p has getTokenFromAddress, and it resolves both tokens of
\* the swap
Resolves(p) ==
  LET swap == original.bestRoute[p[1]].swaps[p[2]]
  IN  /\ HasGetTokenFromAddress(VenueOf(p))
      /\ getTokenFromAddress(VenueOf(p), swap.srcToken) # <<>>
      /\ getTokenFromAddress(VenueOf(p), swap.destToken) # <<>>

\* buildTransaction has thrown the error of a missing getTokenFromAddress
ThrewGetTokenError ==
  /\ pc = "thrown"
  /\ thrown[1].message = "need to implement getTokenFromAddress"

\* C14: for a swapExchange whose venue has preProcessTransaction but does
\* not resolve the swap's srcToken and destToken (no getTokenFromAddress, or
\* one that returns nothing for either address), buildTransaction has thrown
\* the configuration error and preProcessTransaction was not called for it
C14_UnresolvedTokenFailsTheCall ==
  \A p \in Dispatched :
    (HasPreProcessTransaction(VenueOf(p)) /\ ~Resolves(p)) =>
      (ThrewGetTokenError /\ CallsFor(p) = {})

\* the part of C14 about a venue without getTokenFromAddress
C14_MissingLookupFailsTheCall ==
  \A p \in Dispatched :
    (HasPreProcessTransaction(VenueOf(p)) /\ ~HasGetTokenFromAddress(VenueOf(p))) =>
      (ThrewGetTokenError /\ CallsFor(p) = {})

(***************************************************************************)
(* Properties of getPrices (SpecPrices).                                   *)
(***************************************************************************)
\* C12: the sample amounts are chunks + 1 values, the i-th the whole part of
\* amount * i / chunks, from 0 up to the amount itself, never decreasing
C12_SamplesFromZeroToAmount ==
  pcPrices \in {"pricing", "returned", "thrown"} =>
    /\ Len(amounts) = chunks + 1
    /\ amounts[1] = 0
    /\ amounts[chunks + 1] = amount
    /\ \A i \in 0 .. chunks :
         /\ chunks * amounts[i + 1] <= amount * i
         /\ amount * i < chunks * (amounts[i + 1] + 1)
    /\ \A i \in 1 .. chunks : amounts[i] <= amounts[i + 1]

C12_Witness ==
  /\ pcPrices = "pricing"
  /\ amount > chunks
  /\ amount % chunks # 0
  /\ \E i \in 1 .. chunks : chunks * amounts[i + 1] < amount * i

\* C13: from a non-empty list of quotes getPrices returns a rate of one
\* route, one swap and one swapExchange, the percents 100, made from the
\* first quote: the amount and the quote at the last sample are srcAmount and
\* destAmount for SELL, destAmount and srcAmount for BUY, on the rate and on
\* the swapExchange alike
C13_SingleRouteFromFirstQuote ==
  pcPrices = "returned" =>
    LET rate     == returned[1]
        first    == poolPrices[1][1]
        terminal == first.prices[Len(first.prices)]
    IN  /\ Len(poolPrices[1]) >= 1
        /\ Len(rate.bestRoute) = 1
        /\ rate.bestRoute[1].percent = 100
        /\ Len(rate.bestRoute[1].swaps) = 1
        /\ Len(rate.bestRoute[1].swaps[1].swapExchanges) = 1
        /\ LET se == rate.bestRoute[1].swaps[1].swapExchanges[1]
           IN  /\ se.percent = 100
               /\ se.exchange = first.exchange
               /\ se.data = first.data
               /\ se.srcAmount = rate.srcAmount
               /\ se.destAmount = rate.destAmount
        /\ side = SELL =>
             rate.srcAmount.decimal = amount /\ rate.destAmount.decimal = terminal
        /\ side = BUY =>
             rate.srcAmount.decimal = terminal /\ rate.destAmount.decimal = amount

C13_Witness ==
  /\ pcPrices = "returned"
  /\ side = BUY
  /\ amount % chunks # 0
  /\ Len(poolPrices[1]) = 2
  /\ poolPrices[1][1].exchange # poolPrices[1][2].exchange

====
